---- MODULE Spec2Model ----
(***************************************************************************)
(* MediKeep front-end: the request queue of BaseApiService                 *)
(* (services/api/baseApiService, src/unnamed/part_000) and the             *)
(* search / filter / sort / pagination pipeline of the SearchResults page  *)
(* (src/frontend/src/pages/SearchResults.jsx).                             *)
(***************************************************************************)
EXTENDS Integers, Sequences, FiniteSets, TLC

(***************************************************************************)
(* Bounds of the model                                                     *)
(***************************************************************************)
\* number of requests (original calls and retries) of one BaseApiService
MaxCalls == 3
\* the clock runs over 0..MaxTime (seconds, as in payload.exp)
MaxTime == 1

(***************************************************************************)
(* Program constants                                                       *)
(***************************************************************************)
maxConcurrentRequests == 3
maxRetries == 2
DefaultRetryAfter == 60

Calls == 1..MaxCalls
Methods == {"get", "post", "put", "patch", "delete", "deleteWithBody"}
\* the statuses a server answers with: ok, no content, unauthorized,
\* rate limited, server error
Statuses == {200, 204, 401, 429, 500}
\* value of the Retry-After header: 0 stands for "header absent"
NoHeader == 0
RetryAfterValues == {NoHeader, 30}

\* the stored token: none, undecodable, or a JWT with an exp claim
NoToken == [present |-> FALSE, ok |-> FALSE, exp |-> 0]
Malformed == [present |-> TRUE, ok |-> FALSE, exp |-> 0]
Jwt(e) == [present |-> TRUE, ok |-> TRUE, exp |-> e]
Tokens == {NoToken, Malformed} \cup {Jwt(e) : e \in 0..MaxTime}

NoResult == [kind |-> "none", n |-> 0]

VARIABLES
  \* ---- BaseApiService instance and its environment
  requestQueue,       \* this.requestQueue: ids of the queued requests
  isProcessingQueue,  \* this.isProcessingQueue
  activeRequests,     \* this.activeRequests
  loopAt,             \* the request whose requestFn processQueue awaits (0: none)
  loopDelay,          \* processQueue sleeps in its finally block (50 ms)
  restartTimers,      \* pending setTimeout(() => this.processQueue(), 100)
  st,                 \* per request: where its promise / requestFn stands
  admin,              \* per request: its url includes '/admin/'
  parent,             \* per request: the call it retries (0: a caller's call)
  handled,            \* the response handleResponse saw last, and its outcome
  enqOrder,           \* requests in the order queueRequest pushed them
  startOrder,         \* requests in the order their requestFn was started
  token,              \* secureStorage 'token'
  now,                \* Date.now() / 1000
  getItemAsync,       \* secureStorage.getItem returns a Promise
  \* ---- SearchResults page
  query,              \* useState: query (characters)
  results,            \* useState: results (rows of the text search)
  tagResults,         \* useState: tagResults (null, or rows of the tag search)
  selectedTags,       \* useState: selectedTags
  dateRange,          \* useState: dateRange [from, to]
  sortBy,             \* useState: sortBy
  currentPage,        \* useState: currentPage
  pageSize,           \* useState: pageSize
  error,              \* useState: error
  loading,            \* useState: loading
  isLoadingTagSearch, \* useState: isLoadingTagSearch
  inflight,           \* requests of performSearch / performTagSearch pending
  initialLoadDone,    \* useRef: initialLoadDone.current
  tzOffset,           \* the browser's time zone: local time minus UTC
  lastSearchFailed,   \* a request of performSearch failed, and no later search
                      \* or tag search has touched the error state since
  userWaits,          \* the user acts only when no request is pending
  currentPatient,     \* useCurrentPatient: the id of patient, or none
  asked,              \* the query and sort of the search issued last
  shown,              \* the query and sort of the search whose answer is shown
  \* ---- SearchResults page: preview panel and router
  previewItem,        \* useState: previewItem (<<>> is null, else <<row>>)
  previewOpen,        \* useState: previewOpen
  route,              \* the current route of the router
  \* ---- one request followed through BaseApiService or ApiService
  req,                \* the call: service, method, signal, data, params, url
  fetches,            \* the fetch(url, config) calls made for it, in order
  attempts,           \* how each fetch ended: "threw" or the status answered
  retryReq,           \* <<>>, or the request handleResponse issued as retry
  outcome,            \* the promise of the call: pending, resolved, rejected
  \* ---- login and forced password change
  isAuthenticated,    \* AuthContext: isAuthenticated
  mustChangePassword, \* AuthContext: the must-change-password flag
  loginStep,          \* Login.handleSubmit: idle, awaitLogin, delay.., done
  fromPath,           \* location.state?.from?.pathname is set
  changeStep,         \* ForceChangePassword.handleSubmit: idle, awaiting
  formError,          \* ForceChangePassword: error
  accountFlagged,     \* the account logged in has must_change_password=true
  passwordChanged     \* apiService.changePassword has resolved successfully

qvars == <<requestQueue, isProcessingQueue, activeRequests, loopAt, loopDelay,
           restartTimers, st, admin, parent, handled, enqOrder, startOrder,
           token, now, getItemAsync>>

svars == <<query, results, tagResults, selectedTags, dateRange, sortBy,
           currentPage, pageSize, error, loading, isLoadingTagSearch, inflight,
           initialLoadDone, tzOffset, lastSearchFailed, userWaits, currentPatient,
           asked, shown>>

pvars == <<previewItem, previewOpen, route>>

\* everything but the queue, everything but the search state of the page
rvars == <<req, fetches, attempts, retryReq, outcome>>

avars == <<isAuthenticated, mustChangePassword, loginStep, fromPath,
           changeStep, formError, accountFlagged, passwordChanged>>

nonQueue == <<svars, pvars, rvars, avars>>
nonSearch == <<qvars, pvars, rvars, avars>>
nonPreview == <<qvars, svars, rvars, avars>>
nonRequest == <<qvars, svars, pvars, avars>>
nonAuth == <<qvars, svars, rvars, previewItem, previewOpen>>

vars == <<qvars, svars, pvars, rvars, avars>>

(***************************************************************************)
(* Token validation                                                        *)
(***************************************************************************)
\* JSON.parse(atob(token.split('.')[1])) succeeded and exp is not in the past
TokenUsable(tok, t) == tok.present /\ tok.ok /\ ~(tok.exp < t)

\* getAuthHeaders: the token left in storage after validation
AuthHeadersToken(tok, t) ==
  IF tok.present /\ ~TokenUsable(tok, t) THEN NoToken ELSE tok

\* getAuthHeaders: is the Authorization header part of the headers returned
AuthHeadersHas(tok, t) == TokenUsable(tok, t)

\* what handleAuthError reads with `const token = secureStorage.getItem('token')`
\* (no await): the value, or a Promise object when getItem is an async function
GetItemNoAwait(tok, async) ==
  IF async THEN [promise |-> TRUE, value |-> NoToken]
  ELSE [promise |-> FALSE, value |-> tok]

\* mutant: a 429 is treated as an authentication failure too
handleAuthError_429Redirects(status, tok, t, async) ==
  status \in {401, 429} /\ (async \/ ~TokenUsable(tok, t))

\* handleAuthError(response): TRUE when it removed the token and redirected
handleAuthError(status, tok, t, async) ==
  IF status = 401
  THEN LET got == GetItemNoAwait(tok, async)
       IN  IF got.promise
           THEN TRUE                 \* token.split is not a function -> catch
           ELSE IF ~got.value.present THEN TRUE
           ELSE IF ~got.value.ok THEN TRUE          \* decode throws -> catch
           ELSE IF got.value.exp < t THEN TRUE
           ELSE FALSE
  ELSE FALSE

\* the seconds named in the rate-limit message
RetryAfterSeconds(hdr) == IF hdr = NoHeader THEN DefaultRetryAfter ELSE hdr

\* handleResponse(response, errorMessage, retryCount): what it does with a
\* response: "retry" (back off, then this.get), or settle with a result
handleResponse(status, hdr, isAdmin, tok, t, async, retryCount) ==
  IF status \notin {200, 204}
  THEN IF handleAuthError(status, tok, t, async)
       THEN [do |-> "throw", res |-> [kind |-> "auth_redirect", n |-> 0]]
       ELSE IF status = 401 /\ isAdmin /\ retryCount < maxRetries
       THEN [do |-> "retry", res |-> NoResult]
       ELSE IF status = 429
       THEN [do |-> "throw",
             res |-> [kind |-> "rate_limit", n |-> RetryAfterSeconds(hdr)]]
       ELSE [do |-> "throw", res |-> [kind |-> "http_error", n |-> status]]
  ELSE IF status = 204
       THEN [do |-> "return", res |-> [kind |-> "null", n |-> 0]]
       ELSE [do |-> "return", res |-> [kind |-> "json", n |-> 0]]

(***************************************************************************)
(* The queue                                                               *)
(***************************************************************************)
\* mutant: the newest request is taken (pop instead of shift)
Shift_Pop(q) == [item |-> q[Len(q)], rest |-> SubSeq(q, 1, Len(q) - 1)]

\* this.requestQueue.shift()
Shift(q) == [item |-> Head(q), rest |-> Tail(q)]

\* mutant: the slot is released in the catch block and again in finally
Release_Twice(act, ok) == IF ok THEN act - 1 ELSE act - 2

\* finally { this.activeRequests-- }
Release(act, ok) == act - 1

\* the while test of processQueue and, when it passes, the start of one
\* iteration up to `await requestFn()`; when it fails, the exit of the loop
LoopIter(q, act) ==
  IF Len(q) > 0 /\ act < maxConcurrentRequests
  THEN LET s == Shift(q)
       IN  [q |-> s.rest, act |-> act + 1, at |-> s.item, proc |-> TRUE,
            timers |-> 0]
  ELSE [q |-> q, act |-> act, at |-> 0, proc |-> FALSE,
        timers |-> IF Len(q) > 0 THEN 1 ELSE 0]

\* processQueue() called with the queue q: returns at once when a loop is
\* running or the limit is reached
processQueue(q, proc, act) ==
  IF proc \/ act >= maxConcurrentRequests
  THEN [q |-> q, act |-> act, at |-> 0, proc |-> proc, timers |-> 0]
  ELSE LoopIter(q, act)

Used == {c \in Calls : st[c] # "unused"}
NextId == Cardinality(Used) + 1
\* the requests whose handleResponse sleeps before its retry: each will
\* queue one more request, and the model keeps an id for it
Sleeping == {c \in Calls : st[c] = "backoff"}

\* queueRequest(requestFn) for a new request c: push, then processQueue().
\* waiter is the call whose handleResponse awaits c as its retry (0: none).
queueRequest(c, isAdmin, waiter) ==
  LET pq == processQueue(Append(requestQueue, c), isProcessingQueue,
                         activeRequests)
  IN  /\ requestQueue' = pq.q
      /\ isProcessingQueue' = pq.proc
      /\ activeRequests' = pq.act
      /\ loopAt' = IF pq.at # 0 THEN pq.at ELSE loopAt
      /\ restartTimers' = restartTimers + pq.timers
      /\ st' = [x \in Calls |->
                  IF x = pq.at THEN "auth"
                  ELSE IF x = c THEN "queued"
                  ELSE IF x = waiter THEN "awaitRetry"
                  ELSE st[x]]
      /\ admin' = [admin EXCEPT ![c] = isAdmin]
      /\ parent' = [parent EXCEPT ![c] = waiter]
      /\ enqOrder' = Append(enqOrder, c)
      /\ startOrder' = IF pq.at # 0 THEN Append(startOrder, pq.at)
                       ELSE startOrder

\* get / post / put / patch / delete / deleteWithBody called by the
\* application: each wraps its fetch in a requestFn and queues it
Call(m, isAdmin) ==
  /\ NextId + Cardinality(Sleeping) \in Calls
  /\ queueRequest(NextId, isAdmin, 0)
  /\ UNCHANGED <<loopDelay, handled, token, now, getItemAsync>>
  /\ UNCHANGED nonQueue

\* requestFn of c: `headers: await this.getAuthHeaders()`, then fetch is called
GetAuthHeaders(c) ==
  /\ st[c] = "auth"
  /\ token' = AuthHeadersToken(token, now)
  /\ st' = [st EXCEPT ![c] = "fetching"]
  /\ UNCHANGED <<requestQueue, isProcessingQueue, activeRequests, loopAt,
                 loopDelay, restartTimers, admin, parent, handled, enqOrder,
                 startOrder, now, getItemAsync>>
  /\ UNCHANGED nonQueue

\* the promise of request c settles; a call awaiting c as its retry settles
\* alike; processQueue, when it awaits c, resolves/rejects, releases the slot
\* and sleeps 50 ms
Settle(c, ok) ==
  LET word == IF ok THEN "resolved" ELSE "rejected"
      p == parent[c]
  IN  /\ st' = [x \in Calls |->
                  IF x = c \/ (x = p /\ st[x] = "awaitRetry") THEN word
                  ELSE st[x]]
      /\ IF loopAt = c
         THEN /\ activeRequests' = Release(activeRequests, ok)
              /\ loopAt' = 0
              /\ loopDelay' = TRUE
         ELSE UNCHANGED <<activeRequests, loopAt, loopDelay>>

\* fetch of c answers; handleResponse(response, errorMessage) runs on it
\* (every caller leaves retryCount at its default 0)
FetchResponds(c, status, hdr) ==
  /\ st[c] = "fetching"
  /\ hdr # NoHeader => status = 429
  /\ handleResponse(status, hdr, admin[c], token, now, getItemAsync, 0).do
       = "retry" => NextId \in Calls
  /\ LET authErr == handleAuthError(status, token, now, getItemAsync)
         h == handleResponse(status, hdr, admin[c], token, now,
                             getItemAsync, 0)
     IN  /\ handled' = [call |-> c, status |-> status, retryAfter |-> hdr,
                        usable |-> TokenUsable(token, now),
                        redirected |-> authErr, tokenRemoved |-> authErr,
                        res |-> h.res]
         /\ token' = IF authErr THEN NoToken ELSE token
         /\ IF h.do = "retry"
            THEN /\ st' = [st EXCEPT ![c] = "backoff"]
                 /\ UNCHANGED <<activeRequests, loopAt, loopDelay>>
            ELSE Settle(c, h.do = "return")
  /\ UNCHANGED <<requestQueue, isProcessingQueue, restartTimers, admin, parent,
                 enqOrder, startOrder, now, getItemAsync>>
  /\ UNCHANGED nonQueue

\* fetch of c throws (network failure): requestFn rejects
FetchThrows(c) ==
  /\ st[c] = "fetching"
  /\ Settle(c, FALSE)
  /\ UNCHANGED <<requestQueue, isProcessingQueue, restartTimers, admin, parent,
                 handled, enqOrder, startOrder, token, now, getItemAsync>>
  /\ UNCHANGED nonQueue

\* the backoff sleep of handleResponse ends:
\* `return this.get(url, errorMessage)` queues a GET of the same url
RetryGet(c) ==
  /\ st[c] = "backoff"
  /\ NextId \in Calls
  /\ queueRequest(NextId, admin[c], c)
  /\ UNCHANGED <<loopDelay, handled, token, now, getItemAsync>>
  /\ UNCHANGED nonQueue

\* the 50 ms sleep in processQueue's finally ends: next turn of the while
\* loop, or the end of processQueue
LoopContinues ==
  /\ loopDelay
  /\ LET it == LoopIter(requestQueue, activeRequests)
     IN  /\ requestQueue' = it.q
         /\ isProcessingQueue' = it.proc
         /\ activeRequests' = it.act
         /\ loopAt' = it.at
         /\ restartTimers' = restartTimers + it.timers
         /\ st' = IF it.at # 0 THEN [st EXCEPT ![it.at] = "auth"] ELSE st
         /\ startOrder' = IF it.at # 0 THEN Append(startOrder, it.at)
                          ELSE startOrder
  /\ loopDelay' = FALSE
  /\ UNCHANGED <<admin, parent, handled, enqOrder, token, now, getItemAsync>>
  /\ UNCHANGED nonQueue

\* time passes
Tick ==
  /\ now < MaxTime
  /\ now' = now + 1
  /\ UNCHANGED <<requestQueue, isProcessingQueue, activeRequests, loopAt,
                 loopDelay, restartTimers, st, admin, parent, handled,
                 enqOrder, startOrder, token, getItemAsync>>
  /\ UNCHANGED nonQueue

\* the application stores the token of a login
StoreToken(tok) ==
  /\ tok # token
  /\ token' = tok
  /\ UNCHANGED <<requestQueue, isProcessingQueue, activeRequests, loopAt,
                 loopDelay, restartTimers, st, admin, parent, handled,
                 enqOrder, startOrder, now, getItemAsync>>
  /\ UNCHANGED nonQueue

NotHandled == [call |-> 0, status |-> 0, retryAfter |-> NoHeader,
               usable |-> FALSE, redirected |-> FALSE, tokenRemoved |-> FALSE,
               res |-> NoResult]

\* new BaseApiService(basePath)
InitQueue ==
  /\ requestQueue = <<>>
  /\ isProcessingQueue = FALSE
  /\ activeRequests = 0
  /\ loopAt = 0
  /\ loopDelay = FALSE
  /\ restartTimers = 0
  /\ st = [c \in Calls |-> "unused"]
  /\ admin = [c \in Calls |-> FALSE]
  /\ parent = [c \in Calls |-> 0]
  /\ handled = NotHandled
  /\ enqOrder = <<>>
  /\ startOrder = <<>>
  /\ token \in Tokens
  /\ now = 0
  /\ getItemAsync \in BOOLEAN

(***************************************************************************)
(* The SearchResults page: data                                            *)
(***************************************************************************)
\* records of the backend, numbered 1..MaxRows
MaxRows == 3
\* calendar days 0..MaxDay; an instant is day * DayLen + time of day
MaxDay == 1
DayLen == 2
\* search requests of the page that may be in flight together
MaxInFlight == 2
\* rows of the list paginated under SpecPage
MaxListLen == 25

DEFAULT_PAGE_SIZE == 10
PAGE_SIZE_OPTIONS == {10, 20, 50}
Sorts == {"date_desc", "date_asc", "title", "title_desc"}
Tags == {"urgent"}
\* what the user types: nothing, a blank, a word with a leading blank
Queries == {<<>>, <<" ">>, <<" ", "A">>}
\* local time minus UTC, in instants
TzOffsets == {-1, 0, 1}
Days == 0..MaxDay

\* a row's date string: none, 'YYYY-MM-DD', or 'YYYY-MM-DDTHH:MM:SS'
NoDate == [has |-> FALSE, kind |-> "none", day |-> 0, tod |-> 0]
DateOnly(d) == [has |-> TRUE, kind |-> "date", day |-> d, tod |-> 0]
DateTime(d, t) == [has |-> TRUE, kind |-> "datetime", day |-> d, tod |-> t]

\* titles, subtitles and dates of the backend's records, repeating every 4
TitleList == << <<"b">>, <<"A", "b">>, <<>>, <<"a">> >>
SubtitleList == << <<"a">>, <<>>, <<"B">>, <<>> >>
DateList == <<NoDate, DateTime(1, DayLen - 1), DateOnly(1), DateOnly(0)>>
Cyc(i) == ((i - 1) % 4) + 1

\* a row of the table: formatResultItem for a text-search item,
\* flattenTagResults for a tag-search item
Row(i, source) ==
  [id |-> i, src |-> source, title |-> TitleList[Cyc(i)],
   subtitle |-> SubtitleList[Cyc(i)], date |-> DateList[Cyc(i)]]

\* rows lo..hi of the backend, in the order of the response
RECURSIVE RowsOf(_, _, _)
RowsOf(lo, hi, source) ==
  IF lo > hi THEN <<>> ELSE <<Row(lo, source)>> \o RowsOf(lo + 1, hi, source)

\* the dateRange state: null, or a Date (an instant on the UTC time line)
Null == [set |-> FALSE, t |-> 0]
At(x) == [set |-> TRUE, t |-> x]

(***************************************************************************)
(* Strings and dates                                                       *)
(***************************************************************************)
\* String.prototype.toLowerCase, per character
LowerChar(ch) == IF ch = "A" THEN "a" ELSE IF ch = "B" THEN "b" ELSE ch
toLowerCase(s) == [i \in 1..Len(s) |-> LowerChar(s[i])]

\* String.prototype.trim
RECURSIVE trimStart(_)
trimStart(s) ==
  IF s # <<>> /\ Head(s) = " " THEN trimStart(Tail(s)) ELSE s
RECURSIVE trimEnd(_)
trimEnd(s) ==
  IF s # <<>> /\ s[Len(s)] = " " THEN trimEnd(SubSeq(s, 1, Len(s) - 1)) ELSE s
trim(s) == trimEnd(trimStart(s))

\* String.prototype.includes
includes(s, q) ==
  \E i \in 1..(Len(s) + 1) :
    i + Len(q) - 1 <= Len(s) /\ SubSeq(s, i, i + Len(q) - 1) = q

\* code unit order of the characters used
CharRank(ch) == IF ch = " " THEN 0 ELSE IF ch = "a" THEN 1 ELSE 2

\* a.localeCompare(b) on lower-case strings: negative, zero or positive
RECURSIVE localeCompare(_, _)
localeCompare(a, b) ==
  IF a = <<>> /\ b = <<>> THEN 0
  ELSE IF a = <<>> THEN -1
  ELSE IF b = <<>> THEN 1
  ELSE IF CharRank(Head(a)) < CharRank(Head(b)) THEN -1
  ELSE IF CharRank(Head(a)) > CharRank(Head(b)) THEN 1
  ELSE localeCompare(Tail(a), Tail(b))

\* new Date(r.date): a date-only string is UTC midnight, a date-time
\* string without offset is local time
ParseDate(d, tz) ==
  IF d.kind = "date" THEN d.day * DayLen ELSE d.day * DayLen + d.tod - tz

\* new Date(from + 'T00:00:00') and new Date(to + 'T23:59:59'), local time
StartOfDay(day, tz) == day * DayLen - tz
EndOfDay(day, tz) == day * DayLen + (DayLen - 1) - tz

\* the local calendar day of a Date (getFullYear/getMonth/getDate)
LocalDay(t, tz) == (t + tz) \div DayLen

\* no day chosen (a null of the picker, an absent URL parameter)
NoDay == -1
DayChoices == {NoDay} \cup Days

\* toISODateStr(d): null for null, else the local day as 'YYYY-MM-DD'
toISODateStr(d, tz) == IF d.set THEN LocalDay(d.t, tz) ELSE NoDay

(***************************************************************************)
(* The SearchResults page: derived values                                  *)
(***************************************************************************)
\* flattenTagResults(tagResults, t)
flattenTagResults(tr) == IF tr.set THEN tr.rows ELSE <<>>

\* does the row's title or subtitle contain q (already trimmed, lower case)
MatchesQuery(r, q) ==
  includes(toLowerCase(r.title), q) \/ includes(toLowerCase(r.subtitle), q)

\* mutant: with a query and a tag filter the two row lists are concatenated
Merged_Union(res, tr, tags, qy) ==
  IF Len(tags) = 0 THEN res
  ELSE IF qy = <<>> \/ trim(qy) = <<>> THEN flattenTagResults(tr)
  ELSE res \o flattenTagResults(tr)

\* allFilteredResults: `merged`
Merged(res, tr, tags, qy) ==
  LET tagRows == flattenTagResults(tr)
      q == toLowerCase(trim(qy))
  IN  IF Len(tags) = 0 THEN res
      ELSE IF qy = <<>> \/ trim(qy) = <<>> THEN tagRows
      ELSE SelectSeq(tagRows, LAMBDA r : MatchesQuery(r, q))

\* the predicate of the client-side date filter
DatePasses(r, range, tz) ==
  /\ r.date.has
  /\ ~(range[1].set /\ ParseDate(r.date, tz) < range[1].t)
  /\ ~(range[2].set /\ ParseDate(r.date, tz) > range[2].t)

\* allFilteredResults: `dateFiltered`
DateFiltered(rows, range, tz) ==
  IF range[1].set \/ range[2].set
  THEN SelectSeq(rows, LAMBDA r : DatePasses(r, range, tz))
  ELSE rows

\* mutant: in date_asc rows without a date come first
SortCompare_UndatedFirst(sort, a, b, tz) ==
  IF sort = "date_asc" /\ ~(a.date.has /\ b.date.has)
  THEN IF ~a.date.has /\ ~b.date.has THEN 0
       ELSE IF ~a.date.has THEN -1 ELSE 1
  ELSE IF sort = "date_desc"
  THEN IF ~a.date.has /\ ~b.date.has THEN 0
       ELSE IF ~a.date.has THEN 1
       ELSE IF ~b.date.has THEN -1
       ELSE ParseDate(b.date, tz) - ParseDate(a.date, tz)
  ELSE IF sort = "date_asc"
  THEN ParseDate(a.date, tz) - ParseDate(b.date, tz)
  ELSE IF sort = "title"
  THEN localeCompare(toLowerCase(a.title), toLowerCase(b.title))
  ELSE IF sort = "title_desc"
  THEN localeCompare(toLowerCase(b.title), toLowerCase(a.title))
  ELSE 0

\* the comparator given to sorted.sort
SortCompare(sort, a, b, tz) ==
  IF sort = "date_desc"
  THEN IF ~a.date.has /\ ~b.date.has THEN 0
       ELSE IF ~a.date.has THEN 1
       ELSE IF ~b.date.has THEN -1
       ELSE ParseDate(b.date, tz) - ParseDate(a.date, tz)
  ELSE IF sort = "date_asc"
  THEN IF ~a.date.has /\ ~b.date.has THEN 0
       ELSE IF ~a.date.has THEN 1
       ELSE IF ~b.date.has THEN -1
       ELSE ParseDate(a.date, tz) - ParseDate(b.date, tz)
  ELSE IF sort = "title"
  THEN localeCompare(toLowerCase(a.title), toLowerCase(b.title))
  ELSE IF sort = "title_desc"
  THEN localeCompare(toLowerCase(b.title), toLowerCase(a.title))
  ELSE 0

\* Array.prototype.sort (stable): x goes behind every row that is not
\* ordered after it
RECURSIVE InsertSorted(_, _, _, _)
InsertSorted(sorted, x, sort, tz) ==
  IF sorted = <<>> THEN <<x>>
  ELSE IF SortCompare(sort, Head(sorted), x, tz) <= 0
  THEN <<Head(sorted)>> \o InsertSorted(Tail(sorted), x, sort, tz)
  ELSE <<x>> \o sorted

RECURSIVE SortRows(_, _, _)
SortRows(rows, sort, tz) ==
  IF rows = <<>> THEN <<>>
  ELSE InsertSorted(SortRows(SubSeq(rows, 1, Len(rows) - 1), sort, tz),
                    rows[Len(rows)], sort, tz)

\* allFilteredResults
allFilteredResults ==
  SortRows(DateFiltered(Merged(results, tagResults, selectedTags, query),
                        dateRange, tzOffset),
           sortBy, tzOffset)

\* mutant: the slice starts one page late
PageSlice_OffByOne(list, page, size) ==
  SubSeq(list, page * size + 1,
         IF (page + 1) * size < Len(list) THEN (page + 1) * size ELSE Len(list))

\* allFilteredResults.slice(start, start + pageSize), start = (page-1)*size
PageSlice(list, page, size) ==
  SubSeq(list, (page - 1) * size + 1,
         IF page * size < Len(list) THEN page * size ELSE Len(list))

\* mergedResults: the rows on the current page
mergedResults == PageSlice(allFilteredResults, currentPage, pageSize)

\* Math.ceil(allFilteredResults.length / pageSize)
TotalPagesOf(n, size) == (n + size - 1) \div size
totalPages == TotalPagesOf(Len(allFilteredResults), pageSize)

(***************************************************************************)
(* The SearchResults page: requests and handlers                           *)
(***************************************************************************)
NoTagResults == [set |-> FALSE, rows |-> <<>>]

\* the rows of a list
Elems(rows) == {rows[i] : i \in 1..Len(rows)}

\* the route of the search page, of a record's page (getRecordRoute), and
\* the entry before the search page in the history
SearchRoute == [page |-> "search", view |-> 0]
RecordRoute(row) == [page |-> "record", view |-> row.id]
PreviousRoute == [page |-> "previous", view |-> 0]

\* searchService.searchWithPagination: the formatted results of the
\* response (records 1..k), or what its catch block returns
searchWithPagination(ok, k) ==
  IF ok THEN [threw |-> FALSE, results |-> RowsOf(1, k, "text")]
  ELSE [threw |-> FALSE, results |-> <<>>]

\* a pending request of the page: its kind and what it asks for
Patients == {"p1", "p2"}
\* currentPatient?.id is undefined
NoPatient == "none"

NoSearch ==
  [kind |-> "none", patient |-> NoPatient, q |-> <<>>, sort |-> "none",
   from |-> NoDay, to |-> NoDay]
\* searchWithPagination(searchQuery, patientId, options): options.sort, and
\* options.date_from / date_to where toISODateStr gives a day
TextRequest(patient, q, sort, range, tz) ==
  [kind |-> "text", patient |-> patient, q |-> q, sort |-> sort,
   from |-> toISODateStr(range[1], tz), to |-> toISODateStr(range[2], tz)]
TagRequest == [NoSearch EXCEPT !.kind = "tag"]
\* what is recorded of a request: for a user who has one request pending at
\* a time its kind is enough, as the answer belongs to the only request
Sent(r) ==
  IF userWaits THEN [NoSearch EXCEPT !.kind = r.kind, !.patient = r.patient]
  ELSE r

\* performSearch(searchQuery, types, sort, dateRangeOverride) up to its
\* await: setLoading(true), setError(null), request; the callers hand over
\* rangesToUse, the override or the dateRange of the render they run in
\* patient is the currentPatient of that render
performSearch(patient, searchQuery, sort, rangesToUse) ==
  IF patient = NoPatient
  THEN /\ error' = "noPatient"
       /\ UNCHANGED <<loading, inflight, asked, lastSearchFailed, shown>>
  ELSE LET request ==
             TextRequest(patient, searchQuery, sort, rangesToUse, tzOffset)
       IN  /\ loading' = TRUE
           /\ error' = "none"
           /\ inflight' = Append(inflight, Sent(request))
           /\ asked' = IF userWaits THEN asked ELSE request
           /\ lastSearchFailed' = FALSE
           /\ UNCHANGED shown

\* performTagSearch(tags, ...) up to its await, or its early return
performTagSearch(tags) ==
  IF Len(tags) = 0
  THEN /\ tagResults' = NoTagResults
       /\ UNCHANGED <<isLoadingTagSearch, error, inflight, lastSearchFailed,
                      asked, shown>>
  ELSE /\ isLoadingTagSearch' = TRUE
       /\ error' = "none"
       /\ inflight' = Append(inflight, TagRequest)
       /\ lastSearchFailed' = FALSE
       /\ UNCHANGED <<tagResults, asked, shown>>

\* a handler that sends a request can run: at most MaxInFlight requests are
\* pending, and a user who waits for the answers acts when none is
CanRequest ==
  IF userWaits THEN inflight = <<>> ELSE Len(inflight) < MaxInFlight

Without(s, i) == SubSeq(s, 1, i - 1) \o SubSeq(s, i + 1, Len(s))

\* first run of the effect on currentPatient?.id: performSearch(urlQuery)
InitialLoad ==
  /\ ~initialLoadDone
  /\ currentPatient # NoPatient
  /\ CanRequest
  /\ initialLoadDone' = TRUE
  /\ performSearch(currentPatient, query, sortBy, dateRange)
  /\ UNCHANGED <<query, results, tagResults, selectedTags, dateRange, sortBy,
                 currentPage, pageSize, isLoadingTagSearch, tzOffset, userWaits,
                 currentPatient>>
  /\ UNCHANGED nonSearch

\* the user edits the search box: setQuery
SetQuery(q) ==
  /\ initialLoadDone
  /\ q # query
  /\ query' = q
  /\ UNCHANGED <<results, tagResults, selectedTags, dateRange, sortBy,
                 currentPage, pageSize, error, loading, isLoadingTagSearch,
                 inflight, initialLoadDone, tzOffset, userWaits,
                 currentPatient, lastSearchFailed, asked, shown>>
  /\ UNCHANGED nonSearch

\* handleSearch: the search form is submitted
handleSearch ==
  /\ initialLoadDone
  /\ CanRequest
  /\ currentPage' = 1
  /\ performSearch(currentPatient, query, sortBy, dateRange)
  /\ UNCHANGED <<query, results, tagResults, selectedTags, dateRange, sortBy,
                 pageSize, isLoadingTagSearch, initialLoadDone, tzOffset, userWaits,
                 currentPatient>>
  /\ UNCHANGED nonSearch

\* handleTagClick(tag)
handleTagClick(tag) ==
  /\ route = SearchRoute
  /\ initialLoadDone
  /\ CanRequest
  /\ \A i \in 1..Len(selectedTags) : selectedTags[i] # tag
  /\ selectedTags' = Append(selectedTags, tag)
  /\ performTagSearch(Append(selectedTags, tag))
  /\ UNCHANGED <<query, results, dateRange, sortBy, currentPage, pageSize,
                 loading, initialLoadDone, tzOffset, userWaits,
                 currentPatient>>
  /\ UNCHANGED nonSearch

\* handleTagRemove(tagToRemove)
handleTagRemove(tag) ==
  /\ route = SearchRoute
  /\ initialLoadDone
  /\ \E i \in 1..Len(selectedTags) : selectedTags[i] = tag
  /\ LET newTags == SelectSeq(selectedTags, LAMBDA x : x # tag)
     IN  /\ Len(newTags) > 0 => CanRequest
         /\ selectedTags' = newTags
         /\ performTagSearch(newTags)
  /\ UNCHANGED <<query, results, dateRange, sortBy, currentPage, pageSize,
                 loading, initialLoadDone, tzOffset, userWaits,
                 currentPatient>>
  /\ UNCHANGED nonSearch

\* what the date picker of the filter sidebar hands over for a chosen
\* day: a Date at local midnight, or null
PickerDate(d, tz) == IF d = NoDay THEN Null ELSE At(StartOfDay(d, tz))

\* the initial dateRange for the URL parameters date_from / date_to
UrlFrom(d, tz) == IF d = NoDay THEN Null ELSE At(StartOfDay(d, tz))
UrlTo(d, tz) == IF d = NoDay THEN Null ELSE At(EndOfDay(d, tz))

\* handleDateRangeChange(range), range = [from, to] of the picker
handleDateRangeChange(f, t) ==
  /\ initialLoadDone
  /\ CanRequest
  /\ <<PickerDate(f, tzOffset), PickerDate(t, tzOffset)>> # dateRange
  /\ dateRange' = <<PickerDate(f, tzOffset), PickerDate(t, tzOffset)>>
  /\ currentPage' = 1
  /\ performSearch(currentPatient, query, sortBy,
                   <<PickerDate(f, tzOffset), PickerDate(t, tzOffset)>>)
  /\ UNCHANGED <<query, results, tagResults, selectedTags, sortBy, pageSize,
                 isLoadingTagSearch, initialLoadDone, tzOffset, userWaits,
                 currentPatient>>
  /\ UNCHANGED nonSearch

\* handleSortChange(newSort)
handleSortChange(newSort) ==
  /\ initialLoadDone
  /\ CanRequest
  /\ newSort # sortBy
  /\ sortBy' = newSort
  /\ currentPage' = 1
  /\ performSearch(currentPatient, query, newSort, dateRange)
  /\ UNCHANGED <<query, results, tagResults, selectedTags, dateRange, pageSize,
                 isLoadingTagSearch, initialLoadDone, tzOffset, userWaits,
                 currentPatient>>
  /\ UNCHANGED nonSearch

\* handleClearFilters: the states go back to their defaults; the search is
\* performSearch('', [], 'date_desc'), with no dateRangeOverride, so
\* rangesToUse is the dateRange of the render the handler runs in
handleClearFilters ==
  /\ initialLoadDone
  /\ CanRequest
  /\ selectedTags' = <<>>
  /\ sortBy' = "date_desc"
  /\ currentPage' = 1
  /\ tagResults' = NoTagResults
  /\ query' = <<>>
  /\ dateRange' = <<Null, Null>>
  /\ performSearch(currentPatient, <<>>, "date_desc", dateRange)
  /\ UNCHANGED <<results, pageSize, isLoadingTagSearch, initialLoadDone,
                 tzOffset, userWaits,
                 currentPatient>>
  /\ UNCHANGED nonSearch

\* the current patient becomes p and the effect on currentPatient?.id runs
\* in the new render: nothing without a patient, else performSearch(urlQuery)
\* on the first load and performSearch(query) after it
PatientChanges(p) ==
  /\ p # currentPatient
  /\ currentPatient' = p
  /\ IF p = NoPatient
     THEN UNCHANGED <<initialLoadDone, error, loading, inflight, asked,
                      lastSearchFailed, shown>>
     ELSE /\ CanRequest
          /\ initialLoadDone' = TRUE
          /\ performSearch(p, query, sortBy, dateRange)
  /\ UNCHANGED <<query, results, tagResults, selectedTags, dateRange, sortBy,
                 currentPage, pageSize, isLoadingTagSearch, tzOffset,
                 userWaits>>
  /\ UNCHANGED nonSearch

\* handlePageChange(page), from the Pagination control (1..totalPages)
handlePageChange(page) ==
  /\ page \in 1..totalPages
  /\ page # currentPage
  /\ currentPage' = page
  /\ UNCHANGED <<query, results, tagResults, selectedTags, dateRange, sortBy,
                 pageSize, error, loading, isLoadingTagSearch, inflight,
                 initialLoadDone, tzOffset, userWaits,
                 currentPatient, lastSearchFailed, asked, shown>>
  /\ UNCHANGED nonSearch

\* handlePageSizeChange(val): parseInt(val, 10) || DEFAULT_PAGE_SIZE
handlePageSizeChange(val) ==
  /\ val # pageSize
  /\ pageSize' = (IF val # 0 THEN val ELSE DEFAULT_PAGE_SIZE)
  /\ currentPage' = 1
  /\ UNCHANGED <<query, results, tagResults, selectedTags, dateRange, sortBy,
                 error, loading, isLoadingTagSearch, inflight,
                 initialLoadDone, tzOffset, userWaits,
                 currentPatient, lastSearchFailed, asked, shown>>
  /\ UNCHANGED nonSearch

\* the request of the i-th pending performSearch ends: answered with the
\* records 1..k (ok), or failed (network error or error status); the rest of
\* performSearch runs
SearchSettles(i, ok, k) ==
  /\ i \in 1..Len(inflight)
  /\ inflight[i].kind = "text"
  /\ ~ok => k = 0
  /\ LET got == searchWithPagination(ok, k)
     IN  IF got.threw
         THEN /\ error' = "searchFailed"
              /\ results' = <<>>
         ELSE /\ results' = got.results
              /\ UNCHANGED error
  /\ loading' = FALSE
  /\ lastSearchFailed' = ~ok
  /\ shown' = IF userWaits THEN shown ELSE inflight[i]
  /\ inflight' = Without(inflight, i)
  /\ UNCHANGED asked
  /\ UNCHANGED <<query, tagResults, selectedTags, dateRange, sortBy,
                 currentPage, pageSize, isLoadingTagSearch, initialLoadDone,
                 tzOffset, userWaits,
                 currentPatient>>
  /\ UNCHANGED nonSearch

\* the request of the i-th pending performTagSearch ends: answered with the
\* records k..MaxRows (ok), or failed
TagSearchSettles(i, ok, k) ==
  /\ i \in 1..Len(inflight)
  /\ inflight[i].kind = "tag"
  /\ ~ok => k = 1
  /\ IF ok
     THEN /\ tagResults' = [set |-> TRUE, rows |-> RowsOf(k, MaxRows, "tag")]
          /\ UNCHANGED error
     ELSE /\ tagResults' = NoTagResults
          /\ error' = "tagSearchFailed"
  /\ isLoadingTagSearch' = FALSE
  /\ lastSearchFailed' = FALSE
  /\ inflight' = Without(inflight, i)
  /\ UNCHANGED <<asked, shown>>
  /\ UNCHANGED <<query, results, selectedTags, dateRange, sortBy, currentPage,
                 pageSize, loading, initialLoadDone, tzOffset, userWaits,
                 currentPatient>>
  /\ UNCHANGED nonSearch

\* the page's state after its useState initialisers, for the URL
\* ?q=..&sort=..&date_from=..&date_to=..
PageDefaults ==
  /\ results = <<>>
  /\ tagResults = NoTagResults
  /\ selectedTags = <<>>
  /\ currentPage = 1
  /\ pageSize = DEFAULT_PAGE_SIZE
  /\ error = "none"
  /\ loading = FALSE
  /\ isLoadingTagSearch = FALSE
  /\ inflight = <<>>
  /\ initialLoadDone = FALSE
  /\ lastSearchFailed = FALSE
  /\ asked = NoSearch
  /\ shown = NoSearch

\* the page is not mounted
InitNoPage ==
  /\ PageDefaults
  /\ query = <<>>
  /\ sortBy = "date_desc"
  /\ dateRange = <<Null, Null>>
  /\ tzOffset = 0
  /\ userWaits = TRUE
  /\ currentPatient = "p1"

\* the BaseApiService instance is not used
QueueIdle == InitQueue /\ token = NoToken /\ getItemAsync = FALSE

\* no request is followed
NoRequest == [svc |-> "none", method |-> "none", signal |-> FALSE,
              data |-> FALSE, params |-> FALSE, admin |-> FALSE]
RequestIdle ==
  /\ req = NoRequest
  /\ fetches = <<>>
  /\ attempts = <<>>
  /\ retryReq = <<>>
  /\ outcome = "none"

\* nobody is logging in
AuthIdle ==
  /\ isAuthenticated = FALSE
  /\ mustChangePassword = FALSE
  /\ loginStep = "idle"
  /\ fromPath = FALSE
  /\ changeStep = "idle"
  /\ formError = ""
  /\ accountFlagged = FALSE
  /\ passwordChanged = FALSE

\* the preview panel after its useState initialisers, on the route /search
PreviewClosed ==
  /\ previewItem = <<>>
  /\ previewOpen = FALSE
  /\ route = SearchRoute

\* the page is mounted with the URL ?q=..&sort=..&date_from=..&date_to=..
\* in a browser of some time zone
InitSearch ==
  /\ QueueIdle
  /\ PreviewClosed
  /\ RequestIdle
  /\ AuthIdle
  /\ PageDefaults
  /\ query \in Queries
  /\ sortBy \in Sorts
  /\ tzOffset \in TzOffsets
  /\ userWaits = TRUE
  /\ currentPatient = "p1"
  /\ \E f \in DayChoices, t \in DayChoices :
       dateRange = <<UrlFrom(f, tzOffset), UrlTo(t, tzOffset)>>

NextSearch ==
  \/ InitialLoad
  \/ \E q \in Queries : SetQuery(q)
  \/ handleSearch
  \/ \E tag \in Tags : handleTagClick(tag)
  \/ \E tag \in Tags : handleTagRemove(tag)
  \/ \E f \in DayChoices, t \in DayChoices : handleDateRangeChange(f, t)
  \/ \E s \in Sorts : handleSortChange(s)
  \/ \E i \in 1..MaxInFlight, ok \in BOOLEAN, k \in 0..MaxRows : SearchSettles(i, ok, k)
  \/ \E i \in 1..MaxInFlight, ok \in BOOLEAN, k \in 1..(MaxRows + 1) : TagSearchSettles(i, ok, k)

SpecSearch == InitSearch /\ [][NextSearch]_vars

\* the page is mounted for a user who does not wait for the answer of one
\* search before starting the next
InitRace ==
  /\ QueueIdle
  /\ PreviewClosed
  /\ RequestIdle
  /\ AuthIdle
  /\ PageDefaults
  /\ query \in Queries
  /\ sortBy \in Sorts
  /\ tzOffset = 0
  /\ userWaits = FALSE
  /\ currentPatient = "p1"
  /\ dateRange = <<Null, Null>>

NextRace ==
  \/ InitialLoad
  \/ \E q \in Queries : SetQuery(q)
  \/ handleSearch
  \/ \E s \in Sorts : handleSortChange(s)
  \/ \E i \in 1..MaxInFlight, ok \in BOOLEAN, k \in 0..MaxRows : SearchSettles(i, ok, k)

SpecRace == InitRace /\ [][NextRace]_vars

\* the page is mounted for the URL ?date_from=..&date_to=.., and what each
\* search asks for is recorded
InitFilters ==
  /\ QueueIdle
  /\ PreviewClosed
  /\ RequestIdle
  /\ AuthIdle
  /\ PageDefaults
  /\ query \in Queries
  /\ sortBy \in Sorts
  /\ tzOffset = 0
  /\ userWaits = FALSE
  /\ currentPatient = "p1"
  /\ \E f \in DayChoices, t \in DayChoices :
       dateRange = <<UrlFrom(f, tzOffset), UrlTo(t, tzOffset)>>

NextFilters ==
  \/ InitialLoad
  \/ handleClearFilters
  \/ \E tag \in Tags : handleTagClick(tag)
  \/ \E i \in 1..MaxInFlight, ok \in BOOLEAN, k \in 0..MaxRows :
       SearchSettles(i, ok, k)
  \/ \E i \in 1..MaxInFlight, ok \in BOOLEAN, k \in 1..(MaxRows + 1) :
       TagSearchSettles(i, ok, k)

SpecFilters == InitFilters /\ [][NextFilters]_vars

\* a list of n rows is on the page
InitPage ==
  /\ QueueIdle
  /\ PreviewClosed
  /\ RequestIdle
  /\ AuthIdle
  /\ \E n \in 0..MaxListLen : results = RowsOf(1, n, "text")
  /\ tagResults = NoTagResults
  /\ selectedTags = <<>>
  /\ query = <<>>
  /\ sortBy \in Sorts
  /\ dateRange = <<Null, Null>>
  /\ tzOffset = 0
  /\ currentPage = 1
  /\ pageSize \in PAGE_SIZE_OPTIONS
  /\ error = "none"
  /\ loading = FALSE
  /\ isLoadingTagSearch = FALSE
  /\ inflight = <<>>
  /\ initialLoadDone = TRUE
  /\ lastSearchFailed = FALSE
  /\ userWaits = TRUE
  /\ currentPatient = "p1"
  /\ asked = NoSearch
  /\ shown = NoSearch

NextPage ==
  \/ \E p \in 1..(MaxListLen + 1) : handlePageChange(p)
  \/ \E v \in PAGE_SIZE_OPTIONS : handlePageSizeChange(v)
  \/ \E tag \in Tags : handleTagClick(tag)
  \/ \E tag \in Tags : handleTagRemove(tag)
  \/ \E i \in 1..MaxInFlight, ok \in BOOLEAN, k \in 1..(MaxRows + 1) : TagSearchSettles(i, ok, k)

SpecPage == InitPage /\ [][NextPage]_vars

\* a list of n rows of the current patient is on the page
InitPatient ==
  /\ QueueIdle
  /\ PreviewClosed
  /\ RequestIdle
  /\ AuthIdle
  /\ \E n \in 0..MaxListLen : results = RowsOf(1, n, "text")
  /\ tagResults = NoTagResults
  /\ selectedTags = <<>>
  /\ query \in Queries
  /\ sortBy = "date_desc"
  /\ dateRange = <<Null, Null>>
  /\ tzOffset = 0
  /\ currentPage = 1
  /\ pageSize = DEFAULT_PAGE_SIZE
  /\ error = "none"
  /\ loading = FALSE
  /\ isLoadingTagSearch = FALSE
  /\ inflight = <<>>
  /\ initialLoadDone = TRUE
  /\ lastSearchFailed = FALSE
  /\ userWaits = TRUE
  /\ currentPatient \in Patients
  /\ asked = NoSearch
  /\ shown = NoSearch

NextPatient ==
  \/ \E p \in 1..(MaxListLen + 1) : handlePageChange(p)
  \/ \E p \in Patients \cup {NoPatient} : PatientChanges(p)
  \/ \E i \in 1..MaxInFlight, ok \in BOOLEAN, k \in 0..MaxRows :
       SearchSettles(i, ok, k)

SpecPatient == InitPatient /\ [][NextPatient]_vars

(***************************************************************************)
(* The SearchResults page: preview panel                                   *)
(***************************************************************************)
\* every row the table can show
AllRows ==
  Elems(RowsOf(1, MaxRows, "text")) \cup Elems(RowsOf(1, MaxRows, "tag"))

\* mutant: the click on a row navigates to the record (onClick of the
\* usage example of SearchResultCard)
handleRowClick_Navigates(row) ==
  /\ route = SearchRoute
  /\ row \in Elems(mergedResults)
  /\ route' = RecordRoute(row)
  /\ UNCHANGED <<previewItem, previewOpen>>
  /\ UNCHANGED nonPreview

\* a table row or a card on the current page is clicked: handleRowClick(row)
handleRowClick(row) ==
  /\ route = SearchRoute
  /\ row \in Elems(mergedResults)
  /\ previewItem' = <<row>>
  /\ previewOpen' = TRUE
  /\ UNCHANGED route
  /\ UNCHANGED nonPreview

\* the drawer is closed: onClose={() => setPreviewOpen(false)}
ClosePreview ==
  /\ route = SearchRoute
  /\ previewOpen
  /\ previewOpen' = FALSE
  /\ UNCHANGED <<previewItem, route>>
  /\ UNCHANGED nonPreview

\* 'Open Full Record' in the panel: SearchPreviewPanel.handleOpenFullRecord
\* calls onOpenFullRecord(item.route) when the item has a route, which is
\* the page's handleOpenFullRecord(route)
OpenFullRecord ==
  /\ route = SearchRoute
  /\ previewOpen
  /\ previewItem # <<>>
  /\ previewOpen' = FALSE
  /\ route' = RecordRoute(previewItem[1])
  /\ UNCHANGED previewItem
  /\ UNCHANGED nonPreview

\* the back arrow of the page header: navigate(-1); the header lies under
\* the overlay of the drawer while the panel is open
GoBack ==
  /\ route = SearchRoute
  /\ ~previewOpen
  /\ route' = PreviousRoute
  /\ UNCHANGED <<previewItem, previewOpen>>
  /\ UNCHANGED nonPreview

\* the page shows the answer of a search: records 1..n
InitPreview ==
  /\ QueueIdle
  /\ PreviewClosed
  /\ RequestIdle
  /\ AuthIdle
  /\ \E n \in 1..MaxRows : results = RowsOf(1, n, "text")
  /\ tagResults = NoTagResults
  /\ selectedTags = <<>>
  /\ query = <<>>
  /\ sortBy \in Sorts
  /\ dateRange = <<Null, Null>>
  /\ tzOffset = 0
  /\ currentPage = 1
  /\ pageSize = DEFAULT_PAGE_SIZE
  /\ error = "none"
  /\ loading = FALSE
  /\ isLoadingTagSearch = FALSE
  /\ inflight = <<>>
  /\ initialLoadDone = TRUE
  /\ lastSearchFailed = FALSE
  /\ userWaits = TRUE
  /\ currentPatient = "p1"
  /\ asked = NoSearch
  /\ shown = NoSearch

\* the handlers act while the page is mounted (the route is /search)
NextPreview ==
  \/ \E row \in AllRows : handleRowClick(row)
  \/ ClosePreview
  \/ OpenFullRecord
  \/ GoBack
  \/ \E tag \in Tags : handleTagClick(tag)
  \/ \E tag \in Tags : handleTagRemove(tag)
  \/ \E i \in 1..MaxInFlight, ok \in BOOLEAN, k \in 1..(MaxRows + 1) :
       TagSearchSettles(i, ok, k)

SpecPreview == InitPreview /\ [][NextPreview]_vars

Init == InitQueue /\ InitNoPage /\ PreviewClosed /\ RequestIdle /\ AuthIdle

(***************************************************************************)
(* One request through BaseApiService (src/unnamed/part_000) or through    *)
(* ApiService.request (services/api/index.js): what is handed to fetch     *)
(***************************************************************************)
\* the request methods of ApiService
ApiMethods == {"get", "post", "put", "delete", "patch"}

\* the methods that take a data argument, per service
BaseWithData == {"post", "put", "patch", "deleteWithBody"}
ApiWithData == {"post", "put", "patch"}

\* the HTTP method of the fetch config
HttpMethod(m) ==
  IF m = "get" THEN "GET"
  ELSE IF m = "post" THEN "POST"
  ELSE IF m = "put" THEN "PUT"
  ELSE IF m = "patch" THEN "PATCH"
  ELSE "DELETE"

\* fetch(url, config) as the requestFn of BaseApiService.get / post / put /
\* patch / delete / deleteWithBody calls it for the call r, with the token
\* tok in storage: only get destructures `signal` from its options and
\* hands it on; only get appends the query parameters
BaseFetchConfig(r, tok, t) ==
  [base |-> "primary", admin |-> r.admin,
   query |-> (r.method = "get" /\ r.params),
   method |-> HttpMethod(r.method),
   signal |-> (r.method = "get" /\ r.signal),
   body |-> (r.method \in BaseWithData /\ r.data),
   auth |-> AuthHeadersHas(tok, t),
   hadToken |-> tok.present, usable |-> TokenUsable(tok, t),
   removed |-> (AuthHeadersToken(tok, t) = NoToken)]

\* ApiService.getAuthHeaders: the token left in storage
ApiAuthHeadersToken(tok, t) ==
  IF tok.present /\ ~TokenUsable(tok, t) THEN NoToken ELSE tok

\* fetch(urls[i], config) of ApiService.request: the token is read from
\* storage as it is (`...(token && { Authorization })`), not validated
ApiFetchConfig(r, i, tok, t) ==
  [base |-> (IF i = 1 THEN "primary" ELSE "fallback"), admin |-> r.admin,
   query |-> r.params,
   method |-> HttpMethod(r.method),
   signal |-> r.signal,
   body |-> r.data,
   auth |-> tok.present,
   hadToken |-> tok.present, usable |-> TokenUsable(tok, t),
   removed |-> FALSE]

\* handleResponse of BaseApiService: `this.get(url, errorMessage)` with
\* url = response.url without the base: the path and query of the answered
\* fetch f, as a GET without options
RetryRequest(f) ==
  [method |-> "GET", admin |-> f.admin, query |-> f.query, body |-> FALSE,
   signal |-> FALSE]

Threw == [threw |-> TRUE, status |-> 0]
Answered(status) == [threw |-> FALSE, status |-> status]

\* a method of BaseApiService is called
BaseRequest(m, sig, data, params, isAdmin) ==
  /\ req.svc = "none"
  /\ data => m \in BaseWithData
  /\ params => m = "get"
  /\ req' = [svc |-> "base", method |-> m, signal |-> sig, data |-> data,
             params |-> params, admin |-> isAdmin]
  /\ outcome' = "pending"
  /\ UNCHANGED <<fetches, attempts, retryReq>>
  /\ UNCHANGED nonRequest

\* its requestFn runs: `headers: await this.getAuthHeaders()`, then fetch
BaseRequestFn ==
  /\ req.svc = "base"
  /\ fetches = <<>>
  /\ fetches' = <<BaseFetchConfig(req, token, now)>>
  /\ token' = AuthHeadersToken(token, now)
  /\ UNCHANGED <<req, attempts, retryReq, outcome>>
  /\ UNCHANGED <<requestQueue, isProcessingQueue, activeRequests, loopAt,
                 loopDelay, restartTimers, st, admin, parent, handled,
                 enqOrder, startOrder, now, getItemAsync>>
  /\ UNCHANGED <<svars, pvars, avars>>

\* the fetch answers: handleResponse(response, errorMessage)
BaseHandleResponse(status, hdr) ==
  /\ req.svc = "base"
  /\ Len(fetches) = 1 /\ attempts = <<>>
  /\ hdr # NoHeader => status = 429
  /\ LET h == handleResponse(status, hdr, req.admin, token, now,
                             getItemAsync, 0)
     IN  /\ attempts' = <<Answered(status)>>
         /\ token' = IF handleAuthError(status, token, now, getItemAsync)
                     THEN NoToken ELSE token
         /\ IF h.do = "retry"
            THEN /\ retryReq' = <<RetryRequest(fetches[1])>>
                 /\ UNCHANGED outcome
            ELSE /\ outcome' = (IF h.do = "return" THEN "resolved"
                                ELSE "rejected")
                 /\ UNCHANGED retryReq
  /\ UNCHANGED <<req, fetches>>
  /\ UNCHANGED <<requestQueue, isProcessingQueue, activeRequests, loopAt,
                 loopDelay, restartTimers, st, admin, parent, handled,
                 enqOrder, startOrder, now, getItemAsync>>
  /\ UNCHANGED <<svars, pvars, avars>>

\* the fetch throws: the requestFn rejects
BaseFetchThrows ==
  /\ req.svc = "base"
  /\ Len(fetches) = 1 /\ attempts = <<>>
  /\ attempts' = <<Threw>>
  /\ outcome' = "rejected"
  /\ UNCHANGED <<req, fetches, retryReq>>
  /\ UNCHANGED nonRequest

\* ApiService.get / post / put / delete / patch: request(method, url, data,
\* options) up to the loop over the urls
ApiRequest(m, sig, data, params) ==
  /\ req.svc = "none"
  /\ data => m \in ApiWithData
  /\ req' = [svc |-> "api", method |-> m, signal |-> sig, data |-> data,
             params |-> params, admin |-> FALSE]
  /\ outcome' = "pending"
  /\ UNCHANGED <<fetches, attempts, retryReq>>
  /\ UNCHANGED nonRequest

\* one turn of the loop: `await fetch(fullUrl, config)` is called
ApiFetch ==
  /\ req.svc = "api"
  /\ outcome = "pending"
  /\ Len(fetches) = Len(attempts)
  /\ Len(fetches) < 2
  /\ fetches' = Append(fetches,
                       ApiFetchConfig(req, Len(fetches) + 1, token, now))
  /\ UNCHANGED <<req, attempts, retryReq, outcome>>
  /\ UNCHANGED nonRequest

\* the fetch answers: `return this.handleResponse(response, method, fullUrl)`.
\* The promise is returned, not awaited, so a rejection of handleResponse
\* does not reach the catch block of the loop. An error answer whose body
\* is JSON is logged with getAuthHeaders() when it is a 401.
ApiHandleResponse(status, json) ==
  /\ req.svc = "api"
  /\ Len(fetches) = Len(attempts) + 1
  /\ json => status \notin {200, 204}
  /\ attempts' = Append(attempts, Answered(status))
  /\ outcome' = (IF status \in {200, 204} THEN "resolved" ELSE "rejected")
  /\ token' = IF status = 401 /\ json THEN ApiAuthHeadersToken(token, now)
              ELSE token
  /\ UNCHANGED <<req, fetches, retryReq>>
  /\ UNCHANGED <<requestQueue, isProcessingQueue, activeRequests, loopAt,
                 loopDelay, restartTimers, st, admin, parent, handled,
                 enqOrder, startOrder, now, getItemAsync>>
  /\ UNCHANGED <<svars, pvars, avars>>

\* the fetch throws: the catch block keeps the error and goes on to the
\* next url; after the last url the error is thrown
ApiFetchThrows ==
  /\ req.svc = "api"
  /\ Len(fetches) = Len(attempts) + 1
  /\ attempts' = Append(attempts, Threw)
  /\ outcome' = (IF Len(fetches) < 2 THEN "pending" ELSE "rejected")
  /\ UNCHANGED <<req, fetches, retryReq>>
  /\ UNCHANGED nonRequest

NextRequest ==
  \/ \E m \in Methods, sig \in BOOLEAN, data \in BOOLEAN, params \in BOOLEAN,
        a \in BOOLEAN : BaseRequest(m, sig, data, params, a)
  \/ BaseRequestFn
  \/ \E s \in Statuses, h \in RetryAfterValues : BaseHandleResponse(s, h)
  \/ BaseFetchThrows
  \/ \E m \in ApiMethods, sig \in BOOLEAN, data \in BOOLEAN, params \in BOOLEAN :
       ApiRequest(m, sig, data, params)
  \/ ApiFetch
  \/ \E s \in Statuses, j \in BOOLEAN : ApiHandleResponse(s, j)
  \/ ApiFetchThrows
  \/ Tick

\* a service instance and the token storage, before a request
InitRequest ==
  InitQueue /\ InitNoPage /\ PreviewClosed /\ RequestIdle /\ AuthIdle

SpecRequest == InitRequest /\ [][NextRequest]_vars

(***************************************************************************)
(* Login and the forced password change (pages/auth/Login.jsx,             *)
(* pages/auth/ForceChangePassword.tsx)                                     *)
(***************************************************************************)
LoginRoute == [page |-> "login", view |-> 0]
ChangePasswordRoute == [page |-> "change-password", view |-> 0]
DashboardRoute == [page |-> "dashboard", view |-> 0]

\* location.state?.from?.pathname || '/dashboard'
FromOrDashboard(from) == IF from THEN SearchRoute ELSE DashboardRoute

\* what the checks of ForceChangePassword.handleSubmit answer, in order
FormChecks == {"allFieldsRequired", "passwordsMustMatch", "passwordTooShort",
               "passwordComplexity", "passwordMustDiffer", "ok"}

\* Login.handleSubmit up to `await login(formData)`
LoginSubmit ==
  /\ route = LoginRoute
  /\ loginStep = "idle"
  /\ loginStep' = "awaitLogin"
  /\ UNCHANGED <<isAuthenticated, mustChangePassword, fromPath, changeStep,
                 formError, accountFlagged, passwordChanged, route>>
  /\ UNCHANGED nonAuth

\* login(formData) of the AuthContext resolves: on success the context is
\* authenticated and result.mustChangePassword tells the flag; handleSubmit
\* goes on to its 500 ms delay
LoginResolves(success, flagged) ==
  /\ loginStep = "awaitLogin"
  /\ ~success => ~flagged
  /\ IF success
     THEN /\ isAuthenticated' = TRUE
          /\ mustChangePassword' = flagged
          /\ accountFlagged' = flagged
          /\ passwordChanged' = FALSE
          /\ loginStep' = (IF flagged THEN "delayFlagged" ELSE "delayPlain")
     ELSE /\ loginStep' = "idle"
          /\ UNCHANGED <<isAuthenticated, mustChangePassword, accountFlagged,
                         passwordChanged>>
  /\ UNCHANGED <<fromPath, changeStep, formError, route>>
  /\ UNCHANGED nonAuth

\* the effect of the Login page on isAuthenticated: 'Redirect if already
\* authenticated'
LoginRedirectEffect ==
  /\ route = LoginRoute
  /\ isAuthenticated
  /\ route' = FromOrDashboard(fromPath)
  /\ UNCHANGED avars
  /\ UNCHANGED nonAuth

\* the 500 ms delay of handleSubmit ends, after the effects of the render
\* that followed the login have run
LoginDelayEnds ==
  /\ loginStep \in {"delayFlagged", "delayPlain"}
  /\ ~(route = LoginRoute /\ isAuthenticated)
  /\ route' = (IF loginStep = "delayFlagged" THEN ChangePasswordRoute
               ELSE FromOrDashboard(fromPath))
  /\ loginStep' = "done"
  /\ UNCHANGED <<isAuthenticated, mustChangePassword, fromPath, changeStep,
                 formError, accountFlagged, passwordChanged>>
  /\ UNCHANGED nonAuth

\* ForceChangePassword.handleSubmit up to `await apiService.changePassword`
ForceSubmit(check) ==
  /\ route = ChangePasswordRoute
  /\ changeStep = "idle"
  /\ IF check = "ok"
     THEN /\ formError' = ""
          /\ changeStep' = "awaiting"
     ELSE /\ formError' = check
          /\ UNCHANGED changeStep
  /\ UNCHANGED <<isAuthenticated, mustChangePassword, loginStep, fromPath,
                 accountFlagged, passwordChanged, route>>
  /\ UNCHANGED nonAuth

\* apiService.changePassword settles: clearMustChangePassword() and
\* navigate('/dashboard') after success, the error message after failure
ChangePasswordSettles(ok) ==
  /\ changeStep = "awaiting"
  /\ changeStep' = "idle"
  /\ IF ok
     THEN /\ passwordChanged' = TRUE
          /\ mustChangePassword' = FALSE
          /\ route' = DashboardRoute
          /\ UNCHANGED formError
     ELSE /\ formError' = "changeFailed"
          /\ UNCHANGED <<passwordChanged, mustChangePassword, route>>
  /\ UNCHANGED <<isAuthenticated, loginStep, fromPath, accountFlagged>>
  /\ UNCHANGED nonAuth

\* ForceChangePassword.handleLogout: logout(), then navigate('/login')
handleLogout ==
  /\ route = ChangePasswordRoute
  /\ isAuthenticated
  /\ isAuthenticated' = FALSE
  /\ mustChangePassword' = FALSE
  /\ accountFlagged' = FALSE
  /\ loginStep' = "idle"
  /\ route' = LoginRoute
  /\ UNCHANGED <<fromPath, changeStep, formError, passwordChanged>>
  /\ UNCHANGED nonAuth

\* the Login page is shown, reached directly or from a protected page
InitAuth ==
  /\ InitQueue /\ token = NoToken /\ getItemAsync = FALSE
  /\ InitNoPage
  /\ RequestIdle
  /\ previewItem = <<>>
  /\ previewOpen = FALSE
  /\ route = LoginRoute
  /\ isAuthenticated = FALSE
  /\ mustChangePassword = FALSE
  /\ loginStep = "idle"
  /\ fromPath \in BOOLEAN
  /\ changeStep = "idle"
  /\ formError = ""
  /\ accountFlagged = FALSE
  /\ passwordChanged = FALSE

NextAuth ==
  \/ LoginSubmit
  \/ \E success \in BOOLEAN, flagged \in BOOLEAN : LoginResolves(success, flagged)
  \/ LoginRedirectEffect
  \/ LoginDelayEnds
  \/ \E check \in FormChecks : ForceSubmit(check)
  \/ \E ok \in BOOLEAN : ChangePasswordSettles(ok)
  \/ handleLogout

SpecAuth == InitAuth /\ [][NextAuth]_vars

Next ==
  \/ \E m \in Methods, a \in BOOLEAN : Call(m, a)
  \/ \E c \in Calls : GetAuthHeaders(c)
  \/ \E c \in Calls, s \in Statuses, h \in RetryAfterValues : FetchResponds(c, s, h)
  \/ \E c \in Calls : FetchThrows(c)
  \/ \E c \in Calls : RetryGet(c)
  \/ LoopContinues
  \/ Tick
  \/ \E e \in 0..MaxTime : StoreToken(Jwt(e))

Spec == Init /\ [][Next]_vars

\* what the event loop guarantees: a pending promise of getAuthHeaders
\* resolves, a fetch completes (the proviso of the claim about settling),
\* and the timers of the backoff and of processQueue's finally block fire
FetchCompletes ==
  \/ \E c \in Calls, s \in Statuses, h \in RetryAfterValues :
       FetchResponds(c, s, h)
  \/ \E c \in Calls : FetchThrows(c)

Fairness ==
  /\ WF_vars(\E c \in Calls : GetAuthHeaders(c))
  /\ WF_vars(FetchCompletes)
  /\ WF_vars(\E c \in Calls : RetryGet(c))
  /\ WF_vars(LoopContinues)

SpecLive == Init /\ [][Next]_vars /\ Fairness

(***************************************************************************)
(* Properties of the request queue                                         *)
(***************************************************************************)
\* the branch `setTimeout(() => this.processQueue(), 100)` is never taken:
\* the while loop ends only with an empty queue
NoRestartTimer == restartTimers = 0

Settled == {"resolved", "rejected"}
RetriesOf(c) == {r \in Calls : st[r] # "unused" /\ parent[r] = c}

C2_RetriedOnce ==
  \A c \in Calls :
    /\ (handled.call = c /\ handled.status = 401 /\ handled.usable
          /\ parent[c] = 0 /\ st[c] \in Settled)
       => \E r \in RetriesOf(c) : st[r] \in Settled /\ RetriesOf(c) = {r}
    /\ (handled.call = c /\ handled.status = 401 /\ parent[c] # 0)
       => st[c] = "rejected" /\ RetriesOf(c) = {}

\* C3: on a 401 the client redirects to /login and removes the token if and
\* only if the stored token is missing, expired or undecodable; with a
\* present, unexpired token there is no redirect and the token stays
C3_RedirectIffTokenInvalid ==
  handled.status = 401 =>
    /\ handled.redirected <=> ~handled.usable
    /\ handled.tokenRemoved <=> ~handled.usable

\* C4: requests are started in the order they were enqueued
C4_Fifo ==
  /\ Len(startOrder) <= Len(enqOrder)
  /\ \A i \in 1..Len(startOrder) : startOrder[i] = enqOrder[i]

\* every request of the model was started, the later ones after waiting in
\* the queue behind an earlier one
C4_Witness ==
  /\ Len(startOrder) = MaxCalls
  /\ \A c \in Calls : parent[c] = 0

\* C5: a 429 rejects the request with the rate-limit error naming the
\* Retry-After seconds (60 without the header); handling a 429 never queues
\* a retry, never removes the token and never redirects to /login
C5_RateLimit ==
  /\ [](handled.status = 429 =>
          /\ handled.res.kind = "rate_limit"
          /\ handled.res.n =
               (IF handled.retryAfter = NoHeader THEN 60 ELSE handled.retryAfter)
          /\ st[handled.call] = "rejected"
          /\ RetriesOf(handled.call) = {}
          /\ ~handled.redirected
          /\ ~handled.tokenRemoved)
  /\ [][\A c \in Calls :
          (st[c] = "fetching" /\ handled'.call = c /\ handled'.status = 429)
            => token' = token /\ enqOrder' = enqOrder]_vars

\* a 429 without Retry-After was handled while a token is stored
C5_Witness ==
  /\ handled.status = 429
  /\ handled.retryAfter = NoHeader
  /\ handled.res.n = 60
  /\ token.present
  /\ st[handled.call] = "rejected"

C19_ThreeRunInParallel ==
  [][((\A c \in Calls : st[c] \notin Settled)
        /\ Len(enqOrder) >= maxConcurrentRequests
        /\ (\E c \in Calls : st'[c] \in Settled))
      => Len(startOrder) >= maxConcurrentRequests]_vars

(***************************************************************************)
(* Properties of the SearchResults page                                    *)
(***************************************************************************)
Ids(rows) == {rows[i].id : i \in 1..Len(rows)}
merged == Merged(results, tagResults, selectedTags, query)
dateFiltered == DateFiltered(merged, dateRange, tzOffset)
BothActive == Len(selectedTags) > 0 /\ trim(query) # <<>>

\* C6: when the request of a search fails, the page shows its failure
\* message (the error state is set) and not an empty result list
C6_FailureShown ==
  lastSearchFailed => error = "searchFailed"

\* C7: with a text query and a tag filter both active, every record of the
\* text-search response and every record of the tag-search response is in
\* the merged array
C7_MergeKeepsBoth ==
  BothActive =>
    /\ Ids(results) \subseteq Ids(merged)
    /\ Ids(flattenTagResults(tagResults)) \subseteq Ids(merged)

\* C7 as amended: with both active the merged array holds exactly the
\* tag-search rows whose title or subtitle contains the trimmed lower-case
\* query, and no text-search row; with a tag filter and a blank query it is
\* the tag-search rows, with no tag filter the text-search rows
C7_MergedIsOneSource ==
  /\ Len(selectedTags) = 0 => merged = results
  /\ (Len(selectedTags) > 0 /\ trim(query) = <<>>)
       => merged = flattenTagResults(tagResults)
  /\ BothActive =>
       /\ \A r \in Elems(results) : r \notin Elems(merged)
       /\ \A r \in Elems(flattenTagResults(tagResults)) :
            r \in Elems(merged) <=>
              \/ includes(toLowerCase(r.title), toLowerCase(trim(query)))
              \/ includes(toLowerCase(r.subtitle), toLowerCase(trim(query)))
       /\ Elems(merged) \subseteq Elems(flattenTagResults(tagResults))

\* both filters are active, the text search returned rows, and the query
\* keeps some tag rows and drops others
C7_Witness ==
  /\ BothActive
  /\ Len(results) > 0
  /\ Len(merged) > 0
  /\ Len(merged) < Len(flattenTagResults(tagResults))

\* C8: with a date range set a row is displayed if and only if it has a date
\* and that date's day lies between the start day and the end day of the
\* range, both included; with no range set no row is removed by date
C8_DateFilterByDay ==
  IF dateRange[1].set \/ dateRange[2].set
  THEN \A r \in Elems(merged) :
         r \in Elems(allFilteredResults) <=>
           /\ r.date.has
           /\ dateRange[1].set
                => LocalDay(dateRange[1].t, tzOffset) <= r.date.day
           /\ dateRange[2].set
                => r.date.day <= LocalDay(dateRange[2].t, tzOffset)
  ELSE Elems(allFilteredResults) = Elems(merged)

\* i stands before j in the selected order
InOrder(a, b) ==
  /\ sortBy = "date_desc" =>
       /\ b.date.has => a.date.has
       /\ (a.date.has /\ b.date.has)
            => ParseDate(a.date, tzOffset) >= ParseDate(b.date, tzOffset)
  /\ sortBy = "date_asc" =>
       /\ b.date.has => a.date.has
       /\ (a.date.has /\ b.date.has)
            => ParseDate(a.date, tzOffset) <= ParseDate(b.date, tzOffset)
  /\ sortBy = "title" =>
       localeCompare(toLowerCase(a.title), toLowerCase(b.title)) <= 0
  /\ sortBy = "title_desc" =>
       localeCompare(toLowerCase(a.title), toLowerCase(b.title)) >= 0

\* C9: the displayed list holds the rows left by the date filter, ordered by
\* the selected sort across all of them: date_desc newest first, date_asc
\* oldest first, undated rows after every dated row in both; title and
\* title_desc by case-insensitive title, ascending and descending
C9_SortedAcrossAllRows ==
  /\ Len(allFilteredResults) = Len(dateFiltered)
  /\ Elems(allFilteredResults) = Elems(dateFiltered)
  /\ \A i \in 1..Len(allFilteredResults), j \in 1..Len(allFilteredResults) :
       i < j => InOrder(allFilteredResults[i], allFilteredResults[j])

\* every record is listed, dated and undated, sorted oldest first, and the
\* response did not arrive in that order
C9_Witness ==
  /\ sortBy = "date_asc"
  /\ Len(allFilteredResults) = MaxRows
  /\ \E i \in 1..MaxRows : ~allFilteredResults[i].date.has
  /\ allFilteredResults # dateFiltered

\* the pages first..last of the list, one after the other
RECURSIVE PagesJoined(_, _, _, _)
PagesJoined(list, first, last, size) ==
  IF first > last THEN <<>>
  ELSE PageSlice(list, first, size) \o PagesJoined(list, first + 1, last, size)

\* C10: pages 1..ceil(n / pageSize) are consecutive slices of the sorted
\* list: each holds between 1 and pageSize rows, and one after the other
\* they are the list, so every row is on exactly one page
C10_PagesPartitionList ==
  /\ totalPages * pageSize >= Len(allFilteredResults)
  /\ (totalPages - 1) * pageSize < Len(allFilteredResults)
       \/ Len(allFilteredResults) = 0
  /\ \A p \in 1..totalPages :
       /\ Len(PageSlice(allFilteredResults, p, pageSize)) >= 1
       /\ Len(PageSlice(allFilteredResults, p, pageSize)) <= pageSize
  /\ PagesJoined(allFilteredResults, 1, totalPages, pageSize)
       = allFilteredResults
  /\ Cardinality(Ids(allFilteredResults)) = Len(allFilteredResults)

\* the third and last page is shown and is not full
C10_Witness ==
  /\ totalPages >= 3
  /\ currentPage = totalPages
  /\ Len(mergedResults) >= 1
  /\ Len(mergedResults) < pageSize

C11_SignalPassedThrough ==
  req.signal => \A i \in 1..Len(fetches) : fetches[i].signal

C17_InvalidTokenNeverSent ==
  \A i \in 1..Len(fetches) :
    (fetches[i].hadToken /\ ~fetches[i].usable)
      => ~fetches[i].auth /\ fetches[i].removed

\* C18: ApiService.request fetches the fallback url if and only if the
\* attempt against the primary url failed (it threw or was answered with an
\* error status), and rejects only after two failed attempts
C18_FallbackIffPrimaryFailed ==
  req.svc = "api" =>
    /\ Len(fetches) >= 1 => fetches[1].base = "primary"
    /\ Len(fetches) = 2 =>
         /\ fetches[2].base = "fallback"
         /\ attempts[1].threw \/ attempts[1].status \notin {200, 204}
    /\ (outcome # "pending" /\ Len(attempts) = 1)
         => ~attempts[1].threw /\ attempts[1].status \in {200, 204}
    /\ outcome = "rejected" => Len(attempts) = 2

(***************************************************************************)
(* Properties of the forced password change                                *)
(***************************************************************************)
\* C13: while a user is logged in with a flagged account and no password
\* change has succeeded, the route is the login page or the forced
\* password-change page, and the must-change-password flag is still set
C13_ForcedChangeFirst ==
  (isAuthenticated /\ accountFlagged /\ ~passwordChanged)
    => /\ route \in {LoginRoute, ChangePasswordRoute}
       /\ mustChangePassword

(***************************************************************************)
(* Properties of overlapping searches                                      *)
(***************************************************************************)
\* C16: once no search request is pending, the results shown are the answer
\* to the search that was issued last (its query and its sort)
C16_LatestSearchShown ==
  (asked.kind = "text" /\ \A i \in 1..Len(inflight) : inflight[i].kind # "text")
    => shown = asked

(***************************************************************************)
(* Properties of the current page                                          *)
(***************************************************************************)
\* C20: the current page is between 1 and max(1, totalPages), so a list
\* with rows is never shown as a page without rows
C20_CurrentPageInRange ==
  /\ currentPage >= 1
  /\ currentPage <= (IF totalPages > 1 THEN totalPages ELSE 1)
  /\ Len(allFilteredResults) > 0 => Len(mergedResults) > 0

(***************************************************************************)
(* Properties of Clear Filters                                             *)
(***************************************************************************)
\* C22: the search sent by Clear Filters has no query, the default sort and
\* no date range, and after it the page's query, tags, tag results, sort,
\* date range and current page are the defaults
C22_ClearFiltersSendsDefaults ==
  [][handleClearFilters
       => /\ asked' = TextRequest(currentPatient, <<>>, "date_desc",
                                    <<Null, Null>>, tzOffset)
          /\ inflight'[Len(inflight')] = asked'
          /\ query' = <<>>
          /\ selectedTags' = <<>>
          /\ tagResults' = NoTagResults
          /\ sortBy' = "date_desc"
          /\ dateRange' = <<Null, Null>>
          /\ currentPage' = 1]_vars

(***************************************************************************)
(* Properties of the patient change                                        *)
(***************************************************************************)
\* C21: when the current patient changes to another patient after the
\* initial load, a search for the new patient is sent with the page's query
\* and the current page becomes 1
C21_PatientChangeResearches ==
  [][(initialLoadDone /\ currentPatient' # currentPatient
        /\ currentPatient' # NoPatient)
       => /\ Len(inflight') = Len(inflight) + 1
          /\ inflight'[Len(inflight')].kind = "text"
          /\ inflight'[Len(inflight')].patient = currentPatient'
          /\ loading'
          /\ currentPage' = 1]_vars

====
